---- MODULE Spec2Model ----
(***************************************************************************)
(* A model of the terminal editor in src/src/main.rs: the line buffer, the *)
(* cursor and viewport, the key dispatch, the run loop and main.           *)
(*                                                                         *)
(* A String is a sequence of characters, each character its Unicode code   *)
(* point; the byte-indexed String operations of the source (len, split_at, *)
(* remove, insert) are computed over the UTF-8 widths of the characters,   *)
(* the character-indexed ones (chars().count(), char_indices().nth()) over *)
(* the sequence itself.                                                    *)
(*                                                                         *)
(* The terminal is the environment: enable_raw_mode, terminal::size, poll  *)
(* and read may fail, and their errors propagate out of main; the writes   *)
(* of redraw to stdout are taken to succeed.  A terminal has at least one  *)
(* column and one row.  Where an unsigned subtraction goes below zero the  *)
(* model admits both outcomes a build can give: the panic of a build with  *)
(* overflow checks and the wrap-around of a build without.                 *)
(***************************************************************************)
EXTENDS Integers, Sequences, FiniteSets, TLC

VARIABLES
    pc,        \* where main is: "start", "args", "run", "poll", or how it ended:
               \* "ok" (returned Ok), "err" (returned Err), "panic" (unwound)
    raw_mode,  \* whether the terminal is in raw mode
    reported,  \* whether an error message has been written to stderr
    editor,    \* the Editor struct
    last,      \* the last input consumed (file contents, terminal size, event)
    redrawn    \* whether handling the last input called redraw

vars == <<pc, raw_mode, reported, editor, last, redrawn>>

----------------------------------------------------------------------------
(* Bounds of the model.                                                    *)

MaxLines == 2   \* Enter is not taken beyond this many lines
MaxLen == 2     \* a character is not inserted into a line of this many characters
MaxText == 1    \* the longest file contents main loads, in characters
MaxSize == 2    \* the largest terminal width and height
MaxLoadText == 4   \* the longest text load is applied to on its own
MaxTarget == 4  \* the largest coordinate set_cursor is asked for

(* Characters. *)
NL == 10        \* '\n'
TAB == 9        \* '\t'
LowerC == 99    \* 'c'

\* The characters typed with KeyCode::Char: U+00E9, two bytes in UTF-8 (the
\* Tab key types the one-byte '\t').
KeyChars == {233}

\* The characters of a loaded file.
FileChars == {NL, TAB, 233}

----------------------------------------------------------------------------
(* Strings.                                                                *)

Min(a, b) == IF a < b THEN a ELSE b

Max(a, b) == IF a > b THEN a ELSE b

\* char::len_utf8
Utf8Len(c) == IF c < 128 THEN 1 ELSE IF c < 2048 THEN 2 ELSE IF c < 65536 THEN 3 ELSE 4

\* String::len: the length in bytes
RECURSIVE len(_)
len(s) == IF s = <<>> THEN 0 ELSE Utf8Len(Head(s)) + len(Tail(s))

\* str::chars().count(): the length in characters
chars_count(s) == Len(s)

\* the byte offset at which the character of (0-based) index k starts
ByteOffset(s, k) == len(SubSeq(s, 1, k))

\* str::is_char_boundary
is_char_boundary(s, idx) == \E k \in 0..Len(s) : ByteOffset(s, k) = idx

\* the number of characters that end at or before byte offset idx, a boundary
CharsBefore(s, idx) == CHOOSE k \in 0..Len(s) : ByteOffset(s, k) = idx

\* str::split_at(mid): panics unless mid is on a character boundary
split_at(s, mid) ==
    IF ~is_char_boundary(s, mid)
    THEN [panic |-> TRUE, left |-> <<>>, right |-> <<>>]
    ELSE LET k == CharsBefore(s, mid)
         IN [panic |-> FALSE, left |-> SubSeq(s, 1, k), right |-> SubSeq(s, k + 1, Len(s))]

\* String::remove(idx): removes the character that starts at byte idx; panics
\* when idx is not a character boundary or there is no character at idx
string_remove(s, idx) ==
    IF ~is_char_boundary(s, idx) \/ idx >= len(s)
    THEN [panic |-> TRUE, s |-> s]
    ELSE LET k == CharsBefore(s, idx)
         IN [panic |-> FALSE, s |-> SubSeq(s, 1, k) \o SubSeq(s, k + 2, Len(s))]

\* String::insert(idx, ch) at a byte offset that is a character boundary
string_insert(s, idx, ch) ==
    LET k == CharsBefore(s, idx)
    IN SubSeq(s, 1, k) \o <<ch>> \o SubSeq(s, k + 1, Len(s))

\* str::char_indices().nth(n): the byte offset of the n-th character, or None
char_indices_nth(s, n) ==
    IF n < Len(s) THEN [some |-> TRUE, idx |-> ByteOffset(s, n)]
    ELSE [some |-> FALSE, idx |-> 0]

\* split, were it str::lines(): no piece after a final line break
RECURSIVE split_as_lines(_, _)
split_as_lines(s, cur) ==
    IF s = <<>> THEN (IF cur = <<>> THEN <<>> ELSE <<cur>>)
    ELSE IF Head(s) = NL THEN <<cur>> \o split_as_lines(Tail(s), <<>>)
    ELSE split_as_lines(Tail(s), Append(cur, Head(s)))

\* str::split('\n'), collected: the pieces between the line breaks
RECURSIVE split(_, _)
split(s, cur) ==
    IF s = <<>> THEN <<cur>>
    ELSE IF Head(s) = NL THEN <<cur>> \o split(Tail(s), <<>>)
    ELSE split(Tail(s), Append(cur, Head(s)))

\* fn clamp
clamp(v, min, max) == Max(min, Min(max, v))

----------------------------------------------------------------------------
(* The Editor.                                                             *)

\* Point
Point(x, y) == [x |-> x, y |-> y]

\* Editor::new, with Rect::new and EditBuffer::new
EditorNew ==
    [exit |-> FALSE,
     view |-> [pos |-> Point(0, 0), size |-> Point(0, 0)],
     buffer |-> [lines |-> <<>>],
     cursor |-> Point(0, 0)]

\* EditBuffer::num_lines
num_lines(ed) == Len(ed.buffer.lines)

\* EditBuffer::is_empty
is_empty(ed) == Len(ed.buffer.lines) = 0

\* self.buffer.lines[i], for an index i in range
line_at(ed, i) == ed.buffer.lines[i + 1]

\* what an operation of the editor leaves: the editor, whether redraw was
\* called, and whether the operation panicked (the editor is then as the
\* panic left it)
Outcome(ed, redraw, panic) == [ed |-> ed, redraw |-> redraw, panic |-> panic]

\* the scroll of one axis, were the far edge taken one cell too far
scroll_past_edge(cur, pos, size) ==
    IF cur > pos + size THEN cur - size
    ELSE IF cur < pos THEN cur
    ELSE pos

\* the scroll of one axis in set_cursor: the new origin
scroll(cur, pos, size) ==
    IF cur > pos + size - 1 THEN cur - size + 1
    ELSE IF cur < pos THEN cur
    ELSE pos

\* set_cursor, were it to skip the comparison with the current cursor
set_cursor_without_early_return(ed, x, y) ==
    LET max_y == IF is_empty(ed) THEN 0 ELSE num_lines(ed) - 1
        new_y == clamp(y, 0, max_y)
        line_max == IF is_empty(ed) THEN 0 ELSE chars_count(line_at(ed, new_y))
        new_x == clamp(x, 0, line_max)
        new_curs == Point(new_x, new_y)
    IN [ed |-> [ed EXCEPT
                  !.cursor = new_curs,
                  !.view.pos.y = scroll(new_curs.y, ed.view.pos.y, ed.view.size.y),
                  !.view.pos.x = scroll(new_curs.x, ed.view.pos.x, ed.view.size.x)],
        changed |-> TRUE]

\* Editor::set_cursor: the editor after the call and the value returned
set_cursor(ed, x, y) ==
    LET max_y == IF is_empty(ed) THEN 0 ELSE num_lines(ed) - 1
        new_y == clamp(y, 0, max_y)
        line_max == IF is_empty(ed) THEN 0 ELSE chars_count(line_at(ed, new_y))
        new_x == clamp(x, 0, line_max)
        new_curs == Point(new_x, new_y)
    IN IF ed.cursor = new_curs
       THEN [ed |-> ed, changed |-> FALSE]
       ELSE [ed |-> [ed EXCEPT
                       !.cursor = new_curs,
                       !.view.pos.y = scroll(new_curs.y, ed.view.pos.y, ed.view.size.y),
                       !.view.pos.x = scroll(new_curs.x, ed.view.pos.x, ed.view.size.x)],
             changed |-> TRUE]

\* offset_cursor, were it to keep the column when the row changes
offset_cursor_keeping_column(ed, x, y) ==
    LET new_y == clamp(ed.cursor.y + y, 0, num_lines(ed) - 1)
        new_x == IF ed.cursor.x + x < 0 THEN 0 ELSE ed.cursor.x + x
    IN [ed |-> [ed EXCEPT !.cursor = Point(new_x, new_y)],
        changed |-> ed.cursor # Point(new_x, new_y)]

\* Editor::offset_cursor, on signed 32-bit integers
offset_cursor(ed, x, y) ==
    LET new_y == clamp(ed.cursor.y + y, 0, num_lines(ed) - 1)
        line_max == IF is_empty(ed) THEN 0 ELSE chars_count(line_at(ed, new_y))
        new_x == clamp(ed.cursor.x + x, 0, line_max)
    IN set_cursor(ed, new_x, new_y)

\* insert_char, were it to push the character whatever the cursor's column
insert_char_push(ed, ch) ==
    IF is_empty(ed)
    THEN Outcome([ed EXCEPT !.buffer.lines = <<(<<ch>>)>>,
                            !.cursor.x = ed.cursor.x + 1], TRUE, FALSE)
    ELSE IF ~(ed.cursor.y < num_lines(ed))
    THEN Outcome(ed, FALSE, TRUE)
    ELSE Outcome([ed EXCEPT !.buffer.lines[ed.cursor.y + 1] =
                                Append(line_at(ed, ed.cursor.y), ch),
                            !.cursor.x = ed.cursor.x + 1], TRUE, FALSE)

\* insert_char, were it to handle a row past the last line by pushing a line
insert_char_without_assert(ed, ch) ==
    IF is_empty(ed) \/ ~(ed.cursor.y < num_lines(ed))
    THEN Outcome([ed EXCEPT !.buffer.lines = Append(ed.buffer.lines, <<ch>>),
                            !.cursor.x = ed.cursor.x + 1], TRUE, FALSE)
    ELSE insert_char_push(ed, ch)

\* Editor::insert_char
insert_char(ed, ch) ==
    IF is_empty(ed)
    THEN Outcome([ed EXCEPT !.buffer.lines = <<(<<ch>>)>>,
                            !.cursor.x = ed.cursor.x + 1], TRUE, FALSE)
    ELSE IF ~(ed.cursor.y < num_lines(ed))
    THEN Outcome(ed, FALSE, TRUE)
    ELSE LET line == line_at(ed, ed.cursor.y)
             idx == char_indices_nth(line, ed.cursor.x)
             new_line == IF ~idx.some THEN Append(line, ch)
                         ELSE string_insert(line, idx.idx, ch)
         IN Outcome([ed EXCEPT !.buffer.lines[ed.cursor.y + 1] = new_line,
                               !.cursor.x = ed.cursor.x + 1], TRUE, FALSE)

\* Vec::insert(index, element)
vec_insert(v, index, e) == SubSeq(v, 1, index) \o <<e>> \o SubSeq(v, index + 1, Len(v))

\* Vec::remove(index)
vec_remove(v, index) == SubSeq(v, 1, index) \o SubSeq(v, index + 2, Len(v))

\* key_enter, were Enter on an empty buffer to make one empty line
key_enter_single_line(ed) ==
    IF is_empty(ed)
    THEN Outcome([ed EXCEPT !.buffer.lines = << <<>> >>], TRUE, FALSE)
    ELSE IF ~(ed.cursor.y < num_lines(ed))
    THEN Outcome(ed, FALSE, TRUE)
    ELSE LET sp == split_at(line_at(ed, ed.cursor.y), ed.cursor.x)
         IN IF sp.panic THEN Outcome(ed, FALSE, TRUE)
            ELSE Outcome([ed EXCEPT
                            !.buffer.lines = vec_insert([ed.buffer.lines EXCEPT ![ed.cursor.y + 1] = sp.left],
                                                        ed.cursor.y + 1, sp.right),
                            !.cursor = Point(0, ed.cursor.y + 1)], TRUE, FALSE)

\* Editor::key_enter
key_enter(ed) ==
    IF ~is_empty(ed) /\ ~(ed.cursor.y < num_lines(ed))
    THEN Outcome(ed, FALSE, TRUE)
    ELSE LET line == IF ~is_empty(ed) THEN line_at(ed, ed.cursor.y) ELSE <<>>
             sp == split_at(line, ed.cursor.x)
             new_lines ==
                 IF is_empty(ed) THEN <<sp.left, sp.right>>
                 ELSE vec_insert([ed.buffer.lines EXCEPT ![ed.cursor.y + 1] = sp.left],
                                 ed.cursor.y + 1, sp.right)
         IN IF sp.panic THEN Outcome(ed, FALSE, TRUE)
            ELSE Outcome([ed EXCEPT !.buffer.lines = new_lines,
                                    !.cursor = Point(0, ed.cursor.y + 1)], TRUE, FALSE)

\* Editor::key_backspace
key_backspace(ed) ==
    IF ed.cursor.x = 0 /\ ed.cursor.y = 0
    THEN Outcome(ed, FALSE, FALSE)
    ELSE IF ~(ed.cursor.y < num_lines(ed))
    THEN Outcome(ed, FALSE, TRUE)
    ELSE IF ed.cursor.x = 0
    THEN LET curr_line == line_at(ed, ed.cursor.y)
             prev_line == line_at(ed, ed.cursor.y - 1)
             old_len == len(prev_line)
             merged == [ed.buffer.lines EXCEPT ![ed.cursor.y] = prev_line \o curr_line]
         IN Outcome([ed EXCEPT !.buffer.lines = vec_remove(merged, ed.cursor.y),
                               !.cursor = Point(old_len, ed.cursor.y - 1)], TRUE, FALSE)
    ELSE LET rm == string_remove(line_at(ed, ed.cursor.y), ed.cursor.x - 1)
         IN IF rm.panic THEN Outcome(ed, FALSE, TRUE)
            ELSE Outcome([ed EXCEPT !.buffer.lines[ed.cursor.y + 1] = rm.s,
                                    !.cursor.x = ed.cursor.x - 1], TRUE, FALSE)

\* on_resize, were it to scroll back to the top left
on_resize_resetting_origin(ed, new_width, new_height) ==
    Outcome([ed EXCEPT !.view.size = Point(new_width, new_height),
                       !.view.pos = Point(0, 0)], TRUE, FALSE)

\* Editor::on_resize
on_resize(ed, new_width, new_height) ==
    Outcome([ed EXCEPT !.view.size = Point(new_width, new_height)], TRUE, FALSE)

\* the subtractions of redraw that place the terminal's cursor go below zero
redraw_underflows(ed) ==
    ed.cursor.x < ed.view.pos.x \/ ed.cursor.y < ed.view.pos.y

----------------------------------------------------------------------------
(* Key events and their dispatch.                                          *)

\* KeyEvent { code, modifiers }; ch is the character of KeyCode::Char, else 0
Key(code, ch, modifiers) == [code |-> code, ch |-> ch, modifiers |-> modifiers]

\* the key events on_key_event has an arm for
MappedKeys ==
    {Key("Char", LowerC, "CONTROL")}
    \cup {Key(c, 0, "NONE") : c \in {"Down", "Up", "PageDown", "PageUp", "Left", "Right",
                                      "Home", "End", "Enter", "Backspace", "Tab"}}
    \cup {Key("Char", ch, "NONE") : ch \in KeyChars}
    \cup {Key("Tab", 0, "SHIFT")}

\* key events that fall to the last arm
UnmappedKeys ==
    {Key("Char", 233, "CONTROL"), Key("Down", 0, "SHIFT")}

KeyEvents == MappedKeys \cup UnmappedKeys

\* a move arm, were it to set redraw whatever set_cursor returned
moved_always_redraws(r) == Outcome(r.ed, TRUE, FALSE)

\* an arm of on_key_event that assigns the result of a cursor move to redraw
moved(r) == Outcome(r.ed, r.changed, FALSE)

\* Editor::on_key_event: the match, then the redraw the flag asks for
on_key_event(ed, kevent) ==
    LET code == kevent.code
        none == kevent.modifiers = "NONE"
    IN IF code = "Char" /\ kevent.ch = LowerC /\ kevent.modifiers = "CONTROL"
       THEN Outcome([ed EXCEPT !.exit = TRUE], FALSE, FALSE)
       ELSE IF code = "Down" /\ none THEN moved(offset_cursor(ed, 0, 1))
       ELSE IF code = "Up" /\ none THEN moved(offset_cursor(ed, 0, -1))
       ELSE IF code = "PageDown" /\ none THEN moved(offset_cursor(ed, 0, ed.view.size.y - 1))
       ELSE IF code = "PageUp" /\ none THEN moved(offset_cursor(ed, 0, (-ed.view.size.y) - 2))
       ELSE IF code = "Left" /\ none THEN moved(offset_cursor(ed, -1, 0))
       ELSE IF code = "Right" /\ none THEN moved(offset_cursor(ed, 1, 0))
       ELSE IF code = "Home" /\ none THEN moved(set_cursor(ed, 0, ed.cursor.y))
       ELSE IF code = "End" /\ none
       THEN IF ~(ed.cursor.y < num_lines(ed))
            THEN Outcome(ed, FALSE, TRUE)
            ELSE moved(set_cursor(ed, len(line_at(ed, ed.cursor.y)), ed.cursor.y))
       ELSE IF code = "Enter" /\ none THEN key_enter(ed)
       ELSE IF code = "Backspace" /\ none THEN key_backspace(ed)
       ELSE IF code \in {"Char", "Tab"} /\ kevent.modifiers \in {"NONE", "SHIFT"}
       THEN insert_char(ed, IF code = "Tab" THEN TAB ELSE kevent.ch)
       ELSE Outcome(ed, FALSE, FALSE)

----------------------------------------------------------------------------
(* Loading the file named on the command line.                             *)

\* what opening and reading a path gives: the open fails, the read fails
\* (the contents are not UTF-8, the path is a directory), or the text is read
File(opens, reads, text) == [kind |-> "File", opens |-> opens, reads |-> reads, text |-> text]

RECURSIVE SeqsUpTo(_, _)
SeqsUpTo(S, n) ==
    IF n = 0 THEN {<<>>}
    ELSE LET shorter == SeqsUpTo(S, n - 1)
         IN shorter \cup {Append(t, c) : t \in shorter, c \in S}

Texts == SeqsUpTo(FileChars, MaxText)

Files ==
    {File(FALSE, FALSE, <<>>), File(TRUE, FALSE, <<>>)} \cup {File(TRUE, TRUE, t) : t \in Texts}

\* EditBuffer::load: the editor after the call, whether it returned Err, and
\* whether it wrote the error to stderr
load(ed, f) ==
    LET cleared == [ed EXCEPT !.buffer.lines = <<>>]
    IN IF ~f.opens THEN [ed |-> cleared, err |-> FALSE, eprintln |-> TRUE]
       ELSE IF ~f.reads THEN [ed |-> cleared, err |-> TRUE, eprintln |-> FALSE]
       ELSE [ed |-> [cleared EXCEPT !.buffer.lines = cleared.buffer.lines \o split(f.text, <<>>)],
             err |-> FALSE, eprintln |-> FALSE]

----------------------------------------------------------------------------
(* main and the run loop.                                                  *)

Sizes == 1..MaxSize

\* a cleanup called at the end of main in place of the guard: skipped by a panic
drop_clean_up_at_return(p, raw) == IF p \in {"ok", "err"} THEN FALSE ELSE raw

\* CleanUp::drop, when main has ended at p: raw mode is disabled
drop_clean_up(p, raw) == IF p \in {"ok", "err", "panic"} THEN FALSE ELSE raw

\* main's Result: an Err, and a panic, are printed to stderr
main_reports(p, rep) == rep \/ p \in {"err", "panic"}

Init ==
    /\ pc = "start"
    /\ raw_mode = FALSE
    /\ reported = FALSE
    /\ editor = EditorNew
    /\ last = [kind |-> "None"]
    /\ redrawn = FALSE

\* main: terminal::enable_raw_mode()?
EnableRawMode ==
    /\ pc = "start"
    /\ \E ok \in BOOLEAN :
         /\ pc' = IF ok THEN "args" ELSE "err"
         /\ raw_mode' = drop_clean_up(pc', ok)
    /\ reported' = main_reports(pc', reported)
    /\ UNCHANGED <<editor, last, redrawn>>

\* main: no path on the command line
NoArgs ==
    /\ pc = "args"
    /\ pc' = "run"
    /\ UNCHANGED <<raw_mode, reported, editor, last, redrawn>>

\* main: editor.buffer.load(&args[1])?
Load ==
    /\ pc = "args"
    /\ \E f \in Files :
         \E r \in {load(editor, f)} :
            /\ editor' = r.ed
            /\ pc' = IF r.err THEN "err" ELSE "run"
            /\ reported' = main_reports(pc', r.eprintln)
            /\ last' = f
    /\ raw_mode' = drop_clean_up(pc', raw_mode)
    /\ UNCHANGED redrawn

\* run_loop, were it to lack the break
loop_next_without_break(ed) == "poll"

\* the break of run_loop: where the loop goes after an event was handled
loop_next(ed) == IF ed.exit THEN "ok" ELSE "poll"

\* where main can be after an operation: a panic unwinds; an underflow in
\* redraw unwinds when the build checks overflow and wraps when it does not;
\* otherwise main is at next
after(out, next) ==
    IF out.panic THEN {"panic"}
    ELSE IF out.redraw /\ redraw_underflows(out.ed) THEN {"panic", next}
    ELSE {next}

\* run_loop: crossterm::terminal::size()? and the first on_resize
RunLoopStart ==
    /\ pc = "run"
    /\ \/ /\ pc' = "err"
          /\ last' = [kind |-> "Err"]
          /\ UNCHANGED <<editor, redrawn>>
       \/ \E w \in Sizes, h \in Sizes :
            \E out \in {on_resize(editor, w, h)} :
               /\ editor' = out.ed
               /\ redrawn' = out.redraw
               /\ last' = [kind |-> "Size"]
               /\ pc' \in after(out, "poll")
    /\ raw_mode' = drop_clean_up(pc', raw_mode)
    /\ reported' = main_reports(pc', reported)

\* run_loop: event::poll timed out
Idle ==
    /\ pc = "poll"
    /\ last' = [kind |-> "Idle"]
    /\ redrawn' = FALSE
    /\ UNCHANGED <<pc, raw_mode, reported, editor>>

\* run_loop: event::poll or event::read failed
PollError ==
    /\ pc = "poll"
    /\ pc' = "err"
    /\ last' = [kind |-> "Err"]
    /\ redrawn' = FALSE
    /\ raw_mode' = drop_clean_up(pc', raw_mode)
    /\ reported' = main_reports(pc', reported)
    /\ UNCHANGED editor

\* the bounds of the model: a key event is taken when the buffer it leaves
\* has a line more, or a longer line, only within MaxLines and MaxLen
WithinBounds(ed, out) ==
    /\ Len(out.ed.buffer.lines) <= Max(MaxLines, Len(ed.buffer.lines))
    /\ IF out.ed.buffer.lines = ed.buffer.lines THEN TRUE
       ELSE \A i \in 1..Len(out.ed.buffer.lines) : Len(out.ed.buffer.lines[i]) <= MaxLen

\* run_loop: Event::Key
KeyEvent ==
    /\ pc = "poll"
    /\ \E kevent \in KeyEvents :
         \E out \in {on_key_event(editor, kevent)} :
            /\ WithinBounds(editor, out)
            /\ editor' = out.ed
            /\ redrawn' = out.redraw
            /\ last' = [kind |-> "Key", key |-> kevent]
            /\ pc' \in after(out, loop_next(out.ed))
    /\ raw_mode' = drop_clean_up(pc', raw_mode)
    /\ reported' = main_reports(pc', reported)

\* run_loop: Event::Resize
Resize ==
    /\ pc = "poll"
    /\ \E w \in Sizes, h \in Sizes :
         \E out \in {on_resize(editor, w, h)} :
            /\ editor' = out.ed
            /\ redrawn' = out.redraw
            /\ last' = [kind |-> "Resize"]
            /\ pc' \in after(out, loop_next(out.ed))
    /\ raw_mode' = drop_clean_up(pc', raw_mode)
    /\ reported' = main_reports(pc', reported)

\* run_loop: any other event
OtherEvent ==
    /\ pc = "poll"
    /\ last' = [kind |-> "Other"]
    /\ redrawn' = FALSE
    /\ pc' = loop_next(editor)
    /\ raw_mode' = drop_clean_up(pc', raw_mode)
    /\ UNCHANGED <<reported, editor>>

Next ==
    \/ EnableRawMode
    \/ NoArgs
    \/ Load
    \/ RunLoopStart
    \/ Idle
    \/ PollError
    \/ KeyEvent
    \/ Resize
    \/ OtherEvent

Spec == Init /\ [][Next]_vars

----------------------------------------------------------------------------
(* EditBuffer::load on its own: any text, over any previous lines.         *)

LoadTexts == SeqsUpTo(FileChars, MaxLoadText)

PreviousLines == {<<>>, <<(<<TAB>>)>>, <<(<<233>>), <<>>>>}

InitLoad ==
    /\ pc = "args"
    /\ raw_mode = TRUE
    /\ reported = FALSE
    /\ editor \in {[EditorNew EXCEPT !.buffer.lines = l] : l \in PreviousLines}
    /\ last = [kind |-> "None"]
    /\ redrawn = FALSE

\* EditBuffer::load, called as main calls it
LoadText ==
    /\ pc = "args"
    /\ \E f \in {File(FALSE, FALSE, <<>>), File(TRUE, FALSE, <<>>)}
                \cup {File(TRUE, TRUE, t) : t \in LoadTexts} :
         \E r \in {load(editor, f)} :
            /\ editor' = r.ed
            /\ pc' = IF r.err THEN "err" ELSE "run"
            /\ reported' = main_reports(pc', r.eprintln)
            /\ last' = f
    /\ raw_mode' = drop_clean_up(pc', raw_mode)
    /\ UNCHANGED redrawn

SpecLoad == InitLoad /\ [][LoadText]_vars

----------------------------------------------------------------------------
(* The properties checked.                                                 *)

\* the cursor is inside the viewport's rectangle
InViewport(ed) ==
    /\ ed.view.pos.y <= ed.cursor.y
    /\ ed.cursor.y < ed.view.pos.y + ed.view.size.y
    /\ ed.view.pos.x <= ed.cursor.x
    /\ ed.cursor.x < ed.view.pos.x + ed.view.size.x

\* the cursor is on a line of the buffer, at a column of that line or just
\* after its last character; (0,0) when the buffer has no line
CursorInBuffer(ed) ==
    IF Len(ed.buffer.lines) = 0
    THEN ed.cursor = Point(0, 0)
    ELSE /\ ed.cursor.y \in 0..(Len(ed.buffer.lines) - 1)
         /\ ed.cursor.x \in 0..Len(ed.buffer.lines[ed.cursor.y + 1])

KeyStep == pc = "poll" /\ last'.kind = "Key"

CtrlC == Key("Char", LowerC, "CONTROL")

IsInsertKey(k) == k.code \in {"Char", "Tab"} /\ k.modifiers \in {"NONE", "SHIFT"}

TypedChar(k) == IF k.code = "Tab" THEN TAB ELSE k.ch

\* C1: a key event that moves the cursor, and completes, leaves the cursor
\* inside the viewport: origin.row <= cursor.row < origin.row + height and
\* origin.col <= cursor.col < origin.col + width.
C1_CursorInViewport ==
    [][(KeyStep /\ pc' # "panic" /\ editor'.cursor # editor.cursor) => InViewport(editor')]_vars

\* C2: in every reachable state the cursor row is in [0, line_count) and the
\* cursor column in [0, character length of the cursor's line]; both are 0
\* when the buffer is empty.
C2_CursorInBuffer == CursorInBuffer(editor)

\* C3: handling a key event calls redraw if and only if the event changed the
\* cursor, the buffer or the viewport origin.
C3_RedrawIffChanged ==
    [][KeyStep =>
         (redrawn' <=> (\/ editor'.cursor # editor.cursor
                        \/ editor'.buffer # editor.buffer
                        \/ editor'.view.pos # editor.view.pos))]_vars

C3_Witness ==
    /\ pc = "poll"
    /\ last = [kind |-> "Key", key |-> Key("Right", 0, "NONE")]
    /\ redrawn
    /\ editor.cursor.x = 1

\* C4: the editor starts with exit = false; only the Control+'c' key event
\* sets the flag; once it is set the run loop is left, with Ok, and no further
\* event is handled; the run loop returns Ok only with the flag set.
C4_ExitStateMachine ==
    /\ ~editor.exit
    /\ [][/\ editor'.exit # editor.exit =>
               (editor'.exit /\ pc = "poll" /\ last' = [kind |-> "Key", key |-> CtrlC])
          /\ editor'.exit => pc' = "ok"
          /\ pc' = "ok" => editor'.exit
          /\ pc \in {"ok", "err", "panic"} => UNCHANGED vars]_vars

C4_Witness ==
    /\ pc = "ok"
    /\ editor.exit
    /\ last = [kind |-> "Key", key |-> CtrlC]
    /\ Len(editor.buffer.lines) = 2

\* C5: when the file cannot be opened or cannot be read, load reports the
\* error, the buffer has no line, and main goes on to the run loop.
C5_LoadFailureRecovers ==
    (last.kind = "File" /\ ~(last.opens /\ last.reads)) =>
        (reported /\ Len(editor.buffer.lines) = 0 /\ pc = "run")

\* the number of line breaks in a text
RECURSIVE LineBreaks(_)
LineBreaks(t) ==
    IF t = <<>> THEN 0 ELSE (IF Head(t) = NL THEN 1 ELSE 0) + LineBreaks(Tail(t))

\* the lines joined by line breaks
RECURSIVE Join(_)
Join(ls) ==
    IF Len(ls) = 0 THEN <<>>
    ELSE IF Len(ls) = 1 THEN ls[1]
    ELSE ls[1] \o <<NL>> \o Join(Tail(ls))

\* C6: for every text read, load leaves exactly (number of line breaks + 1)
\* lines, none of the previous ones, whose join with the line break is the text.
C6_LoadSplitsOnLineBreaks ==
    (last.kind = "File" /\ last.opens /\ last.reads) =>
        /\ Len(editor.buffer.lines) = LineBreaks(last.text) + 1
        /\ Join(editor.buffer.lines) = last.text
        /\ \A i \in 1..Len(editor.buffer.lines) :
              \A j \in 1..Len(editor.buffer.lines[i]) : editor.buffer.lines[i][j] # NL

C6_Witness ==
    /\ last.kind = "File"
    /\ last.opens /\ last.reads
    /\ last.text = <<TAB, NL, 233, NL>>
    /\ editor.buffer.lines = <<(<<TAB>>), <<233>>, <<>>>>

\* C7: with a non-empty buffer and a valid cursor, Enter followed by Backspace
\* restores the lines and the cursor.
C7_SplitMergeRoundTrip ==
    (pc = "poll" /\ ~is_empty(editor) /\ CursorInBuffer(editor)) =>
        LET entered == on_key_event(editor, Key("Enter", 0, "NONE"))
            merged == on_key_event(entered.ed, Key("Backspace", 0, "NONE"))
        IN /\ ~entered.panic
           /\ ~merged.panic
           /\ merged.ed.buffer.lines = editor.buffer.lines
           /\ merged.ed.cursor = editor.cursor

\* the target of set_cursor, clamped to the buffer
ClampedTarget(ed, x, y) ==
    LET n == Len(ed.buffer.lines)
        row == IF n = 0 THEN 0 ELSE Min(y, n - 1)
        col == IF n = 0 THEN 0 ELSE Min(x, Len(ed.buffer.lines[row + 1]))
    IN Point(col, row)

\* C8: a second set_cursor with the same target changes nothing and returns
\* 'no change'; set_cursor returns 'no change' exactly when the clamped target
\* is the current cursor, and then modifies nothing.
C8_SetCursorIdempotent ==
    (editor.view.size.x >= 1 /\ editor.view.size.y >= 1) =>
        \A x \in 0..MaxTarget, y \in 0..MaxTarget :
            LET first == set_cursor(editor, x, y)
                second == set_cursor(first.ed, x, y)
            IN /\ second.ed = first.ed
               /\ ~second.changed
               /\ first.changed <=> (ClampedTarget(editor, x, y) # editor.cursor)
               /\ ~first.changed => first.ed = editor

C8_Witness ==
    /\ pc = "poll"
    /\ last = [kind |-> "Key", key |-> Key("Home", 0, "NONE")]
    /\ redrawn
    /\ editor.cursor = Point(0, 1)

\* C9: with a non-empty buffer and the cursor at (c,r), typing a character
\* makes line r its first c characters, the character, then the rest; every
\* other line is unchanged; the cursor moves to (c+1, r).
C9_CharacterInsert ==
    [][(KeyStep /\ IsInsertKey(last'.key) /\ ~is_empty(editor) /\ CursorInBuffer(editor)) =>
         LET c == editor.cursor.x
             r == editor.cursor.y
             l == editor.buffer.lines[r + 1]
         IN /\ editor'.buffer.lines =
                  [editor.buffer.lines EXCEPT
                     ![r + 1] = SubSeq(l, 1, c) \o <<TypedChar(last'.key)>> \o SubSeq(l, c + 1, Len(l))]
            /\ editor'.cursor = Point(c + 1, r)]_vars

C9_Witness ==
    /\ pc = "poll"
    /\ last = [kind |-> "Key", key |-> Key("Char", 233, "NONE")]
    /\ editor.cursor = Point(1, 1)
    /\ editor.buffer.lines = <<(<<TAB>>), <<233, TAB>>>>

\* C10: Backspace at column 0 of a row r >= 1 appends line r to line r-1,
\* removes line r, and puts the cursor at (L, r-1), L the length in characters
\* of line r-1 before the merge.
C10_BackspaceMerge ==
    [][(/\ KeyStep
        /\ last'.key = Key("Backspace", 0, "NONE")
        /\ editor.cursor.x = 0
        /\ editor.cursor.y >= 1
        /\ editor.cursor.y < Len(editor.buffer.lines)) =>
         LET r == editor.cursor.y
             ls == editor.buffer.lines
         IN /\ editor'.buffer.lines =
                  SubSeq(ls, 1, r - 1) \o <<ls[r] \o ls[r + 1]>> \o SubSeq(ls, r + 2, Len(ls))
            /\ editor'.cursor = Point(Len(ls[r]), r - 1)]_vars

\* C11: with a non-empty buffer and the cursor at (c,r), Enter makes line r its
\* first c characters, inserts the remaining characters as line r+1, leaves
\* the other lines as they were, and moves the cursor to (0, r+1); on an empty
\* buffer Enter leaves exactly two empty lines.
C11_EnterSplitsLine ==
    [][(KeyStep /\ last'.key = Key("Enter", 0, "NONE") /\ CursorInBuffer(editor)) =>
         IF is_empty(editor)
         THEN editor'.buffer.lines = << <<>>, <<>> >>
         ELSE LET c == editor.cursor.x
                  r == editor.cursor.y
                  ls == editor.buffer.lines
                  l == ls[r + 1]
              IN /\ editor'.buffer.lines =
                       SubSeq(ls, 1, r) \o <<SubSeq(l, 1, c), SubSeq(l, c + 1, Len(l))>>
                                        \o SubSeq(ls, r + 2, Len(ls))
                 /\ editor'.cursor = Point(0, r + 1)]_vars

----------------------------------------------------------------------------
(* Editor::insert_char on its own: any buffer, any cursor.                 *)

\* the buffers insert_char is applied to: up to MaxLines lines of at most one
\* character
InsertBuffers == SeqsUpTo({<<>>, <<TAB>>, <<233>>}, MaxLines)

InitInsert ==
    /\ pc = "poll"
    /\ raw_mode = TRUE
    /\ reported = FALSE
    /\ editor \in {[EditorNew EXCEPT !.buffer.lines = ls,
                                     !.cursor = Point(x, y),
                                     !.view.size = Point(MaxSize, MaxSize)] :
                      ls \in InsertBuffers, x \in 0..1, y \in 0..MaxLines}
    /\ last = [kind |-> "Size"]
    /\ redrawn = TRUE

\* Editor::insert_char, called as the Char/Tab arm of on_key_event calls it
InsertChar ==
    /\ pc = "poll"
    /\ \E kevent \in {Key("Char", 233, "NONE"), Key("Tab", 0, "NONE")} :
         \E out \in {insert_char(editor, IF kevent.code = "Tab" THEN TAB ELSE kevent.ch)} :
            /\ WithinBounds(editor, out)
            /\ editor' = out.ed
            /\ redrawn' = out.redraw
            /\ last' = [kind |-> "Key", key |-> kevent]
            /\ pc' \in after(out, "poll")
    /\ raw_mode' = drop_clean_up(pc', raw_mode)
    /\ reported' = main_reports(pc', reported)

SpecInsert == InitInsert /\ [][InsertChar]_vars

\* C12 as stated: an insert on an empty buffer, or with the cursor's row past
\* the last line, fails fatally and leaves the buffer as it was.
C12_InsertPrecondition ==
    [][(KeyStep /\ (is_empty(editor) \/ ~(editor.cursor.y < num_lines(editor)))) =>
         (pc' = "panic" /\ editor' = editor)]_vars

\* C12 as amended: with a non-empty buffer an insert with the cursor's row past
\* the last line fails fatally (the assertion) and modifies nothing; an insert
\* on an empty buffer is handled: it makes the character the only line and
\* moves the cursor one column right.
C12_InsertPreconditionAmended ==
    [][KeyStep =>
         /\ (~is_empty(editor) /\ ~(editor.cursor.y < num_lines(editor))) =>
               (pc' = "panic" /\ editor' = editor)
         /\ is_empty(editor) =>
               /\ pc' = "poll"
               /\ editor'.buffer.lines = << <<TypedChar(last'.key)>> >>
               /\ editor'.cursor = Point(editor.cursor.x + 1, editor.cursor.y)]_vars

C12_Witness ==
    /\ pc = "panic"
    /\ last.kind = "Key"
    /\ Len(editor.buffer.lines) = 1
    /\ editor.cursor.y = 2

Ended == {"ok", "err", "panic"}

\* C13: raw mode is enabled once, before the run loop; main is in the run loop
\* only with raw mode enabled; however main ends (Ok, Err or a panic), raw
\* mode is disabled.
C13_RawModeReleased ==
    [][/\ (raw_mode' /\ ~raw_mode) => pc = "start"
       /\ pc' \in {"args", "run", "poll"} => raw_mode'
       /\ pc' \in Ended => ~raw_mode']_vars

C13_Witness ==
    /\ pc = "panic"
    /\ ~raw_mode
    /\ last = [kind |-> "Key", key |-> Key("Enter", 0, "NONE")]
    /\ Len(editor.buffer.lines) = 1

\* the character length of the cursor's line, 0 when the buffer is empty
CurrentLineLength(ed) ==
    IF ed.cursor.y < num_lines(ed) THEN Len(line_at(ed, ed.cursor.y)) ELSE 0

\* C14: in every reachable state, the buffer empty or not, Home moves the
\* cursor to column 0 of its row and End to the character length of its line
\* (0 on an empty buffer); both leave the row and the buffer unchanged and
\* complete without a fatal error.
C14_HomeEnd ==
    [][(KeyStep /\ last'.key \in {Key("Home", 0, "NONE"), Key("End", 0, "NONE")}) =>
         /\ pc' # "panic"
         /\ editor'.buffer = editor.buffer
         /\ editor'.cursor.y = editor.cursor.y
         /\ editor'.cursor.x = IF last'.key.code = "Home" THEN 0 ELSE CurrentLineLength(editor)]_vars

\* one axis of the claimed scroll: the origin after the cursor coordinate
\* has become cur
MinimalScroll(cur, origin, size) ==
    IF origin <= cur /\ cur < origin + size THEN origin
    ELSE IF cur >= origin + size THEN cur - size + 1
    ELSE cur

\* the origins of one axis from which coordinate cur is visible
VisibleFrom(cur, size) == {o \in 0..MaxTarget : o <= cur /\ cur < o + size}

Distance(a, b) == IF a >= b THEN a - b ELSE b - a

\* C15: when set_cursor changes the cursor (viewport at least 1 x 1), on each
\* axis the origin stays if the new coordinate is inside [origin, origin +
\* size), becomes cursor - size + 1 if the cursor is past the far edge and
\* becomes the cursor coordinate if it is before the origin; afterwards the
\* cursor is visible and no origin showing the cursor is nearer the old one.
C15_MinimalScroll ==
    (editor.view.size.x >= 1 /\ editor.view.size.y >= 1) =>
        \A x \in 0..MaxTarget, y \in 0..MaxTarget :
            LET set == set_cursor(editor, x, y)
                new == set.ed
                old == editor.view
            IN set.changed =>
                /\ new.view.pos.x = MinimalScroll(new.cursor.x, old.pos.x, old.size.x)
                /\ new.view.pos.y = MinimalScroll(new.cursor.y, old.pos.y, old.size.y)
                /\ InViewport(new)
                /\ \A o \in VisibleFrom(new.cursor.x, old.size.x) :
                      Distance(new.view.pos.x, old.pos.x) <= Distance(o, old.pos.x)
                /\ \A o \in VisibleFrom(new.cursor.y, old.size.y) :
                      Distance(new.view.pos.y, old.pos.y) <= Distance(o, old.pos.y)

\* Down from (0,0) on two lines in a viewport one row high
C15_Witness ==
    /\ pc = "poll"
    /\ last = [kind |-> "Key", key |-> Key("Down", 0, "NONE")]
    /\ redrawn
    /\ Len(editor.buffer.lines) = 2
    /\ editor.cursor = Point(0, 1)
    /\ editor.view.size.y = 1
    /\ editor.view.pos.y = 1

\* the (dx, dy) the claim gives each movement key, for a viewport of height h
MoveKeys == {Key(c, 0, "NONE") : c \in {"Left", "Right", "Up", "Down", "PageDown", "PageUp"}}

Delta(k, h) ==
    CASE k.code = "Left" -> Point(-1, 0)
      [] k.code = "Right" -> Point(1, 0)
      [] k.code = "Up" -> Point(0, -1)
      [] k.code = "Down" -> Point(0, 1)
      [] k.code = "PageDown" -> Point(0, h - 1)
      [] k.code = "PageUp" -> Point(0, (-h) - 2)

C17_RedrawNoUnderflow ==
    redrawn => ~redraw_underflows(editor)

\* C18: Backspace with the cursor at column c > 0 of row r deletes the
\* character before the cursor (line r becomes its first c-1 characters
\* followed by its characters from c on), moves the cursor to (c-1, r) and
\* leaves the other lines unchanged; so typing a character into a non-empty
\* buffer and then pressing Backspace restores the lines and the cursor;
\* Backspace at (0,0) changes nothing.
C18_BackspaceDeletes ==
    [][/\ (KeyStep /\ last'.key = Key("Backspace", 0, "NONE") /\ CursorInBuffer(editor)) =>
            LET c == editor.cursor.x
                r == editor.cursor.y
            IN /\ c > 0 =>
                    LET l == editor.buffer.lines[r + 1]
                    IN /\ editor'.buffer.lines =
                             [editor.buffer.lines EXCEPT ![r + 1] = SubSeq(l, 1, c - 1) \o SubSeq(l, c + 1, Len(l))]
                       /\ editor'.cursor = Point(c - 1, r)
               /\ (c = 0 /\ r = 0) => editor' = editor
       /\ (KeyStep /\ IsInsertKey(last'.key) /\ ~is_empty(editor) /\ CursorInBuffer(editor)) =>
            \E back \in {key_backspace(editor')} :
                /\ ~back.panic
                /\ back.ed.buffer.lines = editor.buffer.lines
                /\ back.ed.cursor = editor.cursor]_vars

\* the keys that move the cursor
MovementKeys == MoveKeys \cup {Key("Home", 0, "NONE"), Key("End", 0, "NONE")}

\* C19: movement keys, the quit key and unmapped combinations never modify
\* the buffer's lines; an unmapped combination and the quit key also leave
\* cursor and viewport unchanged; a resize changes only the viewport size;
\* no event other than Control+'c' changes the exit flag.
C19_Frame ==
    [][pc = "poll" =>
         /\ (last'.kind = "Key" /\ last'.key \in MovementKeys \cup UnmappedKeys \cup {CtrlC}) =>
                editor'.buffer = editor.buffer
         /\ (last'.kind = "Key" /\ last'.key \in UnmappedKeys \cup {CtrlC}) =>
                (editor'.cursor = editor.cursor /\ editor'.view = editor.view)
         /\ last'.kind = "Resize" =>
                editor' = [editor EXCEPT !.view.size = editor'.view.size]
         /\ editor'.exit # editor.exit => (last'.kind = "Key" /\ last'.key = CtrlC)]_vars

\* a resize with the viewport scrolled and the cursor away from (0,0)
C19_Witness ==
    /\ last = [kind |-> "Resize"]
    /\ pc = "poll"
    /\ editor.view.pos.x = 1
    /\ editor.view.pos.y = 1
    /\ editor.cursor = Point(1, 1)

\* C20: once the buffer holds a line, no key or resize event empties it; the
\* line count changes only by +1 (Enter on a non-empty buffer), -1 (Backspace
\* at column 0 of a row >= 1), 0 to 1 (character insert on an empty buffer)
\* or 0 to 2 (Enter on an empty buffer).
C20_LineCount ==
    [][pc = "poll" =>
         LET n == Len(editor.buffer.lines)
             after_n == Len(editor'.buffer.lines)
             key == IF last'.kind = "Key" THEN last'.key ELSE Key("None", 0, "NONE")
         IN /\ n > 0 => after_n > 0
            /\ after_n # n =>
                 \/ n > 0 /\ after_n = n + 1 /\ key = Key("Enter", 0, "NONE")
                 \/ /\ after_n = n - 1
                    /\ key = Key("Backspace", 0, "NONE")
                    /\ editor.cursor.x = 0
                    /\ editor.cursor.y >= 1
                 \/ n = 0 /\ after_n = 1 /\ IsInsertKey(key)
                 \/ n = 0 /\ after_n = 2 /\ key = Key("Enter", 0, "NONE")]_vars

\* two lines merged into one by Backspace
C20_Witness ==
    /\ pc = "poll"
    /\ last = [kind |-> "Key", key |-> Key("Backspace", 0, "NONE")]
    /\ editor.buffer.lines = << <<TAB, 233>> >>
    /\ editor.cursor = Point(1, 0)

====
